---- MODULE Spec2Model ----
(***************************************************************************)
(* Model of src/gpt.ts: the OpenAIModel completion client.                 *)
(*                                                                         *)
(* A client is constructed once (reading the credential from the process   *)
(* environment), after which query and completions may be invoked any      *)
(* number of times.  Each invocation runs synchronously up to its single   *)
(* await (the axios.post call) and resumes when the transport settles.     *)
(* Invocations overlap only at that await; everything before and after it  *)
(* runs to completion on the single JavaScript thread.                     *)
(*                                                                         *)
(* Strings whose characters matter (prompts, completions) are sequences of *)
(* one-character strings.  Option values are written as their JSON text.   *)
(***************************************************************************)
EXTENDS Integers, Sequences, FiniteSets, TLC

VARIABLES
    env,        \* value of process.env.OPENAI_API_KEY
    proc,       \* "start" | "running" | "exited"
    exitCode,   \* process exit code (-1 while the process is alive)
    console,    \* lines the constructor writes with console.error and console.log
    client,     \* <<>> or <<the constructed OpenAIModel>>
    now,        \* performance.now(), read when an invocation starts and when it settles
    marks,      \* start times of the timeline entries named "openai-query-start"
    calls,      \* per invocation slot: the invocation suspended at its await
    ret,        \* <<>> or <<record of the invocation that settled last>>
    first       \* history: per stub payload, the set that query first returned for it

vars == <<env, proc, exitCode, console, client, now, marks, calls, ret, first>>

----------------------------------------------------------------------------
(* Bounds of the model *)

NumCalls == 2       \* invocation slots that may be in flight together
MaxTime == 3        \* invocations started in one run
MaxChoices == 2     \* choices in one response payload
MaxOptFields == 1   \* fields set by one option layer, in SpecOptions

Calls == 1..NumCalls

----------------------------------------------------------------------------
(* JavaScript values *)

Undefined == "undefined"
Null == "null"

WhiteSpace == {" ", "\t", "\n"}

\* String.prototype.trim as used at gpt.ts:91
RECURSIVE TrimStart(_)
TrimStart(s) ==
    IF s = <<>> THEN s
    ELSE IF Head(s) \in WhiteSpace THEN TrimStart(Tail(s)) ELSE s

RECURSIVE TrimEnd(_)
TrimEnd(s) ==
    IF s = <<>> THEN s
    ELSE IF s[Len(s)] \in WhiteSpace THEN TrimEnd(SubSeq(s, 1, Len(s) - 1)) ELSE s

\* trimStart in place of trim
TrimStartOnly(s) == TrimStart(s)

Trim(s) == TrimEnd(TrimStart(s))

----------------------------------------------------------------------------
(* Options: gpt.ts:7-14 and the spread at gpt.ts:51-55 *)

Fields == {"max_tokens", "temperature", "n", "top_p", "stop"}

defaultPostOptions ==
    [max_tokens |-> "100", temperature |-> "0", n |-> "1", top_p |-> "1", stop |-> Null]

\* Values a caller may give a field; Undefined is an own property holding undefined
FieldValues(f) ==
    CASE f = "max_tokens" -> {"50", "10", Undefined}
      [] f = "temperature" -> {"0.7", "1", Undefined}
      [] f = "n" -> {"2", "5", Undefined}
      [] f = "top_p" -> {"0.5", "0", Undefined}
      [] f = "stop" -> {"[\"\\n\"]", Null, Undefined}

\* PostOptions = Partial<typeof defaultPostOptions>: records over any subset of Fields
PostOptionsOver(D) == {o \in [D -> UNION {FieldValues(f) : f \in D}] :
                         \A f \in D : o[f] \in FieldValues(f)}

AllPostOptions ==
    UNION {PostOptionsOver(D) : D \in {S \in SUBSET Fields : Cardinality(S) <= MaxOptFields}}

EmptyOptions == [f \in {} |-> Undefined]

\* {...a, ...b}: own properties of b override those of a
Spread(a, b) ==
    [f \in DOMAIN a \cup DOMAIN b |-> IF f \in DOMAIN b THEN b[f] ELSE a[f]]

\* The two override layers spread in the wrong order
MergeOptionsInstanceWins(instanceOptions, requestPostOptions) ==
    Spread(Spread(defaultPostOptions, requestPostOptions), instanceOptions)

\* gpt.ts:51-55
MergeOptions(instanceOptions, requestPostOptions) ==
    Spread(Spread(defaultPostOptions, instanceOptions), requestPostOptions)

Prompts == {<<"a">>, <<"a", "b">>}

\* gpt.ts:59-67
PostBody(prompt, options) ==
    [model |-> "gpt-4",
     messages |-> <<[role |-> "user", content |-> prompt]>>,
     max_tokens |-> options["max_tokens"],
     temperature |-> options["temperature"],
     n |-> options["n"],
     top_p |-> options["top_p"],
     stop |-> options["stop"]]

\* gpt.ts:46-49
Headers(apiKey) ==
    [ContentType |-> "application/json", Authorization |-> <<"Bearer", apiKey>>]

----------------------------------------------------------------------------
(* Errors *)

NoError == [name |-> "none", text |-> "", status |-> 0]

\* rejections of axios.post (gpt.ts:69)
NetworkError == [name |-> "AxiosError", text |-> "Network Error", status |-> 0]
AxiosStatusError(s) ==
    [name |-> "AxiosError", text |-> "Request failed with status code", status |-> s]

\* gpt.ts:80-82
StatusError(s) == [name |-> "Error", text |-> "Request failed with status", status |-> s]
\* gpt.ts:86
EmptyResponseError == [name |-> "Error", text |-> "Response data is empty", status |-> 0]
\* gpt.ts:91, reading .content or .trim of a value that has none
ChoiceTypeError == [name |-> "TypeError", text |-> "Cannot read properties", status |-> 0]
\* thrown by trimCompletion (gpt.ts:110)
PostProcessError == [name |-> "Error", text |-> "trimCompletion failed", status |-> 0]

\* Completion of a function body: a returned set of strings or a thrown error
Return(v) == [ok |-> TRUE, value |-> v, err |-> NoError]
Throw(e) == [ok |-> FALSE, value |-> {}, err |-> e]

----------------------------------------------------------------------------
(* Responses *)

Statuses == {200, 201, 304, 429, 500}

\* axios resolves a response whose status its validateStatus accepts and
\* rejects any other; the default accepts 200..299
Is2xx(s) == s >= 200 /\ s < 300

Contents == {<<" ", "h", "i", " ", " ">>, <<"h", "i">>, <<"\t", "h", " ", "i", "\n">>}

WellFormed(content) == [shape |-> "ok", content |-> content]
\* a choice whose message, or whose message.content, is missing
Malformed == [shape |-> "malformed", content |-> <<>>]

ChoiceLists(items) == UNION {[1..k -> items] : k \in 0..MaxChoices}

\* res.data: absent, the empty string of an empty body, or a parsed object
NoPayload == [t |-> "undefined", hasChoices |-> FALSE, choices |-> <<>>]
EmptyPayload == [t |-> "emptystring", hasChoices |-> FALSE, choices |-> <<>>]
ObjectWithoutChoices == [t |-> "object", hasChoices |-> FALSE, choices |-> <<>>]
ObjectWith(choices) == [t |-> "object", hasChoices |-> TRUE, choices |-> choices]

HiTwice == ObjectWith(<<WellFormed(<<" ", "h", "i", " ", " ">>), WellFormed(<<"h", "i">>)>>)

\* Bodies of responses outside 200..299: none, an error object, or completions
ErrorPayloads == {NoPayload, EmptyPayload, ObjectWithoutChoices, HiTwice}

AllPayloads ==
    {NoPayload, EmptyPayload, ObjectWithoutChoices}
        \cup {ObjectWith(l) : l \in ChoiceLists({WellFormed(s) : s \in Contents}
                                                  \cup {Malformed})}


Rejected(e) == [settle |-> "reject", err |-> e, status |-> 0, data |-> NoPayload]
Resolved(s, d) == [settle |-> "resolve", err |-> NoError, status |-> s, data |-> d]

HSpaceI == ObjectWith(<<WellFormed(<<"\t", "h", " ", "i", "\n">>)>>)

\* The payloads a stubbed transport returns to more than one invocation
StubPayloads == {HiTwice, HSpaceI}

SomeOutcomes ==
    {Rejected(NetworkError), Rejected(AxiosStatusError(429)), Resolved(200, NoPayload),
     Resolved(201, HiTwice)} \cup {Resolved(200, d) : d \in StubPayloads}

\* What the awaited axios.post can settle with.  A response outside 200..299
\* is rejected by the default transport and resolved by one that validates
\* no status (a stub, or axios.defaults.validateStatus overridden).
AllOutcomes ==
    {Rejected(NetworkError)}
        \cup {Rejected(AxiosStatusError(s)) : s \in {t \in Statuses : ~Is2xx(t)}}
        \cup {Resolved(s, d) : s \in {t \in Statuses : Is2xx(t)}, d \in AllPayloads}
        \cup {Resolved(s, d) : s \in {t \in Statuses : ~Is2xx(t)}, d \in ErrorPayloads}

----------------------------------------------------------------------------
(* query after its await: gpt.ts:79-94 *)

\* !res.data
Falsy(data) == data.t \in {"undefined", "emptystring"}

\* res.data.choices || []
ChoicesOrEmpty(data) == IF data.hasChoices THEN data.choices ELSE <<>>

\* gpt.ts:89-94
RECURSIVE AddChoices(_, _)
AddChoices(choices, completions) ==
    IF choices = <<>> THEN Return(completions)
    ELSE IF Head(choices).shape # "ok" THEN Throw(ChoiceTypeError)
    ELSE AddChoices(Tail(choices), completions \cup {Trim(Head(choices).content)})

\* Any status in 200..299 accepted
StatusOkAny2xx(status) == Is2xx(status)

\* No status test
StatusOkAlways(status) == TRUE

\* gpt.ts:79
StatusOk(status) == status = 200

\* The completions set kept across invocations instead of made anew by each
ValidateResponseSharedSet(res) ==
    IF ~(res.status = 200) THEN Throw(StatusError(res.status))
    ELSE IF Falsy(res.data) THEN Throw(EmptyResponseError)
    ELSE AddChoices(ChoicesOrEmpty(res.data),
                    IF ret # <<>> THEN ret[1].query.value ELSE {})

\* A payload without choices treated as an empty response
ValidateResponseChoicesRequired(res) ==
    IF ~StatusOk(res.status) THEN Throw(StatusError(res.status))
    ELSE IF Falsy(res.data) \/ ~res.data.hasChoices THEN Throw(EmptyResponseError)
    ELSE AddChoices(res.data.choices, {})

\* gpt.ts:79-94
ValidateResponse(res) ==
    IF ~StatusOk(res.status) THEN Throw(StatusError(res.status))
    ELSE IF Falsy(res.data) THEN Throw(EmptyResponseError)
    ELSE AddChoices(ChoicesOrEmpty(res.data), {})

\* A rejected request swallowed into an empty result
QuerySettledSwallowing(outcome) ==
    IF outcome.settle = "reject" THEN Return({}) ELSE ValidateResponse(outcome)

\* What the promise returned by query settles with: the await at gpt.ts:69
\* rethrows a rejection, as query has no handler of its own
QuerySettled(outcome) ==
    IF outcome.settle = "reject" THEN Throw(outcome.err) ELSE ValidateResponse(outcome)

----------------------------------------------------------------------------
(* completions: gpt.ts:103-117 *)

PostProcessing == {"keep", "cut", "throw"}

\* trimCompletion runs once per completion that query returned to completions
PostProcessingOf(kind, queried) ==
    IF kind = "completions" /\ queried.ok /\ queried.value # {}
    THEN PostProcessing ELSE {"keep"}

RECURSIVE UpToWhiteSpace(_)
UpToWhiteSpace(s) ==
    IF s = <<>> \/ Head(s) \in WhiteSpace THEN <<>>
    ELSE <<Head(s)>> \o UpToWhiteSpace(Tail(s))

\* trimCompletion of ./syntax: a raw completion in, a cleaned one out, or a throw
trimCompletion(completion, post) ==
    CASE post = "keep" -> Return({completion})
      [] post = "cut" -> Return({UpToWhiteSpace(completion)})
      [] post = "throw" -> Throw(PostProcessError)

Warning(err) == [text |-> "Failed to get completions", message |-> err.text]

Settled(result, warnings) == [result |-> result, warnings |-> warnings]

\* No try/catch around the body
CompletionsSettledRethrowing(queried, post) ==
    IF ~queried.ok THEN Settled(queried, <<>>)
    ELSE IF \E completion \in queried.value : ~trimCompletion(completion, post).ok
    THEN Settled(Throw(PostProcessError), <<>>)
    ELSE Settled(Return(UNION {trimCompletion(completion, post).value :
                                 completion \in queried.value}), <<>>)

\* gpt.ts:107-116
CompletionsSettled(queried, post) ==
    IF ~queried.ok
    THEN Settled(Return({}), <<Warning(queried.err)>>)
    ELSE IF \E completion \in queried.value : ~trimCompletion(completion, post).ok
    THEN Settled(Return({}), <<Warning(PostProcessError)>>)
    ELSE Settled(Return(UNION {trimCompletion(completion, post).value :
                                 completion \in queried.value}), <<>>)

----------------------------------------------------------------------------
(* State *)

IdleCall ==
    [pc |-> "idle", kind |-> "none", prompt |-> <<>>, requestPostOptions |-> EmptyOptions,
     options |-> defaultPostOptions, request |-> <<>>, started |-> -1, requests |-> 0]

Init ==
    /\ env \in {Undefined, "", "sk-test"}
    /\ proc = "start"
    /\ exitCode = -1
    /\ console = <<>>
    /\ client = <<>>
    /\ now = 0
    /\ marks = <<>>
    /\ calls = [c \in Calls |-> IdleCall]
    /\ ret = <<>>
    /\ first = {}

----------------------------------------------------------------------------
(* Construction: gpt.ts:16-33 *)

\* value === undefined in place of !value
MissingOnlyWhenUnset(value) == value = Undefined

\* !value at gpt.ts:18
Missing(value) == value \in {Undefined, ""}

\* new OpenAIModel(instanceOptions), with getEnv("OPENAI_API_KEY") inlined
Construct(instanceOptions) ==
    /\ proc = "start"
    /\ IF Missing(env)
       THEN /\ console' = Append(console,
                    [stream |-> "error",
                     text |-> "Please set the OPENAI_API_KEY environment variable."])
            /\ proc' = "exited"
            /\ exitCode' = 1
            /\ UNCHANGED client
       ELSE /\ client' = <<[apiEndpoint |-> "https://api.openai.com/v1/chat/completions",
                            apiKey |-> env,
                            instanceOptions |-> instanceOptions]>>
            /\ console' = Append(console, [stream |-> "log", text |-> "Using OpenAI GPT-4 API"])
            /\ proc' = "running"
            /\ UNCHANGED exitCode
    /\ UNCHANGED <<env, now, marks, calls, ret, first>>

----------------------------------------------------------------------------
(* query up to its await: gpt.ts:46-69 *)

QueryStart(c, kind, prompt, requestPostOptions) ==
    /\ proc = "running"
    /\ client # <<>>
    /\ calls[c].pc = "idle"
    /\ now < MaxTime
    /\ LET this == client[1]
           options == MergeOptions(this.instanceOptions, requestPostOptions)
           request == [url |-> this.apiEndpoint,
                       headers |-> Headers(this.apiKey),
                       body |-> PostBody(prompt, options)]
       IN /\ marks' = Append(marks, now)
          /\ calls' = [calls EXCEPT ![c] =
                         [pc |-> "awaiting", kind |-> kind, prompt |-> prompt,
                          requestPostOptions |-> requestPostOptions,
                          options |-> options, request |-> <<request>>,
                          started |-> now, requests |-> calls[c].requests + 1]]
    /\ now' = now + 1
    /\ UNCHANGED <<env, proc, exitCode, console, client, ret, first>>

\* model.query(prompt, requestPostOptions)
Query(c, prompt, requestPostOptions) == QueryStart(c, "query", prompt, requestPostOptions)

\* model.completions(prompt, temperature): gpt.ts:109 passes { temperature }
Completions(c, prompt, temperature) ==
    QueryStart(c, "completions", prompt, [f \in {"temperature"} |-> temperature])

----------------------------------------------------------------------------
(* The await settles and the invocation runs to its end: gpt.ts:69-95, 109-116 *)

\* performance.measure(name, "openai-query-start") starts at the most recent
\* timeline entry of that name
MeasureStart(c) == marks[Len(marks)]

\* gpt.ts:71-77
Measure(c) ==
    [name |-> [options |-> calls[c].options, promptLength |-> Len(calls[c].prompt)],
     start |-> MeasureStart(c),
     end |-> now]

Settle(c, outcome) ==
    /\ calls[c].pc = "awaiting"
    /\ \E post \in PostProcessingOf(calls[c].kind, QuerySettled(outcome)) :
         LET queried == QuerySettled(outcome)
             settled == IF calls[c].kind = "completions"
                        THEN CompletionsSettled(queried, post)
                        ELSE Settled(queried, <<>>)
             repeated == \E e \in first : e.data = outcome.data
         IN /\ ret' = <<[kind |-> calls[c].kind, started |-> calls[c].started,
                         requests |-> calls[c].requests,
                         transport |-> outcome,
                         measure |-> IF outcome.settle = "resolve"
                                     THEN <<Measure(c)>> ELSE <<>>,
                         query |-> queried,
                         post |-> post,
                         result |-> settled.result,
                         warnings |-> settled.warnings,
                         repeated |-> queried.ok /\ repeated]>>
            /\ first' = IF queried.ok /\ ~repeated /\ outcome.data \in StubPayloads
                        THEN first \cup {[data |-> outcome.data, value |-> queried.value]}
                        ELSE first
    /\ calls' = [calls EXCEPT ![c] = IdleCall]
    /\ UNCHANGED <<env, proc, exitCode, console, client, now, marks>>

----------------------------------------------------------------------------
(* Specifications *)

\* Invocations overlapping on one client
Next ==
    \/ Construct(EmptyOptions)
    \/ \E c \in Calls, p \in Prompts : Query(c, p, EmptyOptions)
    \/ \E c \in Calls : Completions(c, <<"a">>, "0")
    \/ \E c \in Calls, r \in SomeOutcomes : Settle(c, r)

Spec == Init /\ [][Next]_vars

\* One invocation at a time over a transport that always fails, for every
\* layering of options
NextOptions ==
    \/ \E o \in AllPostOptions : Construct(o)
    \/ \E o \in AllPostOptions : Query(1, <<"a">>, o)
    \/ \E t \in FieldValues("temperature") : Completions(1, <<"a">>, t)
    \/ Settle(1, Rejected(NetworkError))

SpecOptions == Init /\ [][NextOptions]_vars

\* One invocation at a time, over every response
NextResponses ==
    \/ Construct(EmptyOptions)
    \/ Query(1, <<"a">>, EmptyOptions)
    \/ Completions(1, <<"a">>, "0")
    \/ \E r \in AllOutcomes : Settle(1, r)

SpecResponses == Init /\ [][NextResponses]_vars

----------------------------------------------------------------------------
(* Properties *)

\* The status of the HTTP response an invocation received, 0 when it got none
ResponseStatus(r) ==
    IF r.transport.settle = "resolve" THEN r.transport.status ELSE r.transport.err.status

\* t is s without its leading and trailing white space
IsTrimOf(t, s) ==
    \E i, j \in 0..Len(s) :
        /\ i + j <= Len(s)
        /\ t = SubSeq(s, i + 1, Len(s) - j)
        /\ \A k \in 1..i : s[k] \in WhiteSpace
        /\ \A k \in (Len(s) - j + 1)..Len(s) : s[k] \in WhiteSpace
        /\ t = <<>> \/ (t[1] \notin WhiteSpace /\ t[Len(t)] \notin WhiteSpace)

AllWellFormed(choices) == \A i \in 1..Len(choices) : choices[i].shape = "ok"

C2_LayeredOptions ==
    \A c \in Calls :
        calls[c].pc = "awaiting" =>
            LET perCall == calls[c].requestPostOptions
                instance == client[1].instanceOptions
                builtIn(f) == CASE f = "max_tokens" -> "100"
                                [] f = "temperature" -> "0"
                                [] f = "n" -> "1"
                                [] f = "top_p" -> "1"
                                [] f = "stop" -> "null"
            IN \A f \in {"max_tokens", "temperature", "n", "top_p", "stop"} :
                   calls[c].request[1].body[f] =
                       IF f \in DOMAIN perCall THEN perCall[f]
                       ELSE IF f \in DOMAIN instance THEN instance[f]
                       ELSE builtIn(f)

C2_Witness ==
    /\ client # <<>>
    /\ calls[1].pc = "awaiting"
    /\ calls[1].kind = "query"
    /\ client[1].instanceOptions = [f \in {"max_tokens"} |-> "50"]
    /\ calls[1].requestPostOptions = [f \in {"max_tokens"} |-> "10"]
    /\ calls[1].request[1].body["max_tokens"] = "10"
    /\ calls[1].request[1].body["n"] = "1"

\* C3: the set query returns is exactly the set of trimmed contents of the
\* response's choices: at most as many elements as choices, and as many
\* unless two choices trim to the same text.
C3_QueryMirrorsChoices ==
    \A r \in {ret[i] : i \in DOMAIN ret} :
        (r.kind = "query" /\ r.result.ok) =>
            LET choices == r.transport.data.choices
                value == r.result.value
                sameTrim(i, j) ==
                    \E t \in value : /\ IsTrimOf(t, choices[i].content)
                                     /\ IsTrimOf(t, choices[j].content)
            IN /\ \A i \in 1..Len(choices) :
                      \E t \in value : IsTrimOf(t, choices[i].content)
               /\ \A t \in value :
                      \E i \in 1..Len(choices) : IsTrimOf(t, choices[i].content)
               /\ Cardinality(value) <= Len(choices)
               /\ (\A i, j \in 1..Len(choices) : i # j => ~sameTrim(i, j))
                      => Cardinality(value) = Len(choices)

C3_Witness ==
    /\ ret # <<>>
    /\ ret[1].kind = "query"
    /\ ret[1].transport.data.choices =
           <<[shape |-> "ok", content |-> <<" ", "h", "i", " ", " ">>],
             [shape |-> "ok", content |-> <<"h", "i">>]>>
    /\ ret[1].result.ok
    /\ ret[1].result.value = {<<"h", "i">>}

\* C4: for a response status outside 200..299, query fails with an error that
\* carries the status and returns no set; completions returns the empty set.
C4_ErrorStatus ==
    \A r \in {ret[i] : i \in DOMAIN ret} :
        (ResponseStatus(r) # 0 /\ ~(ResponseStatus(r) \in 200..299)) =>
            /\ r.kind = "query" =>
                   /\ ~r.result.ok
                   /\ r.result.err.status = ResponseStatus(r)
                   /\ r.result.value = {}
            /\ r.kind = "completions" => r.result = Return({})

C4_Witness ==
    /\ ret # <<>>
    /\ ret[1].kind = "query"
    /\ ret[1].transport.settle = "resolve"
    /\ ret[1].transport.status = 429
    /\ ~ret[1].result.ok
    /\ ret[1].result.err.status = 429

\* C5 as claimed: every response with a status in 200..299, a payload and
\* well-formed choices makes query return its result set.
C5_Any2xxReturns ==
    \A r \in {ret[i] : i \in DOMAIN ret} :
        (/\ r.kind = "query"
         /\ r.transport.settle = "resolve"
         /\ r.transport.status \in 200..299
         /\ r.transport.data.t = "object"
         /\ AllWellFormed(r.transport.data.choices)) => r.result.ok

\* C5 amended: query returns its result set for a response with status 200, a
\* payload and well-formed choices, and fails with the status error for every
\* response with another status, 201..299 included.
C5_Only200Returns ==
    \A r \in {ret[i] : i \in DOMAIN ret} :
        (r.kind = "query" /\ r.transport.settle = "resolve") =>
            /\ (/\ r.transport.status = 200
                /\ r.transport.data.t = "object"
                /\ AllWellFormed(r.transport.data.choices)) => r.result.ok
            /\ r.transport.status # 200 =>
                   /\ ~r.result.ok
                   /\ r.result.err.text = "Request failed with status"
                   /\ r.result.err.status = r.transport.status
            /\ r.result.err.text = "Request failed with status" =>
                   r.transport.status # 200

C5_Witness ==
    /\ ret # <<>>
    /\ ret[1].kind = "query"
    /\ ret[1].transport.settle = "resolve"
    /\ ret[1].transport.status = 201
    /\ ret[1].transport.data.t = "object"
    /\ ret[1].transport.data.choices # <<>>
    /\ AllWellFormed(ret[1].transport.data.choices)
    /\ ~ret[1].result.ok
    /\ ret[1].result.err.status = 201

\* C6 as claimed: for a response with a status in 200..299, a missing or empty
\* payload makes query fail with the empty-response error, and a payload
\* without choices (or with an empty list of them) makes it return the empty set.
C6_Any2xxPayloadCases ==
    \A r \in {ret[i] : i \in DOMAIN ret} :
        (/\ r.kind = "query"
         /\ r.transport.settle = "resolve"
         /\ r.transport.status \in 200..299) =>
            /\ r.transport.data.t # "object" =>
                   ~r.result.ok /\ r.result.err.text = "Response data is empty"
            /\ (r.transport.data.t = "object" /\ r.transport.data.choices = <<>>) =>
                   r.result = Return({})

\* C6 amended: the same two cases, for a response with status 200.
C6_PayloadCases ==
    \A r \in {ret[i] : i \in DOMAIN ret} :
        (/\ r.kind = "query"
         /\ r.transport.settle = "resolve"
         /\ r.transport.status = 200) =>
            /\ r.transport.data.t # "object" =>
                   ~r.result.ok /\ r.result.err.text = "Response data is empty"
            /\ (r.transport.data.t = "object" /\ r.transport.data.choices = <<>>) =>
                   r.result = Return({})

C6_Witness ==
    /\ ret # <<>>
    /\ ret[1].kind = "query"
    /\ ret[1].transport.status = 200
    /\ ret[1].transport.data.t = "object"
    /\ ~ret[1].transport.data.hasChoices
    /\ ret[1].result = Return({})

\* C7: every invocation issues exactly one request whatever its outcome, and
\* an error raised inside query reaches query's caller as that same error.
C7_OneRequestErrorsPropagate ==
    /\ \A c \in Calls : calls[c].pc = "awaiting" => calls[c].requests = 1
    /\ \A c \in Calls : calls[c].pc = "idle" => calls[c].requests = 0
    /\ \A r \in {ret[i] : i \in DOMAIN ret} :
           /\ r.requests = 1
           /\ r.transport.settle = "reject" =>
                  ~r.query.ok /\ r.query.err = r.transport.err
           /\ (r.transport.settle = "resolve" /\ r.transport.status # 200) =>
                  ~r.query.ok /\ r.query.err.status = r.transport.status
           /\ (/\ r.transport.settle = "resolve"
               /\ r.transport.status = 200
               /\ r.transport.data.t # "object") =>
                  ~r.query.ok /\ r.query.err.text = "Response data is empty"
           /\ r.kind = "query" => r.result = r.query

C7_Witness ==
    /\ ret # <<>>
    /\ ret[1].kind = "query"
    /\ ret[1].transport.settle = "reject"
    /\ ret[1].transport.err.text = "Network Error"
    /\ ret[1].result.err.text = "Network Error"
    /\ ~ret[1].result.ok
    /\ ret[1].requests = 1

\* C8: with the credential variable unset or empty, construction ends the
\* process with exit code 1 after a diagnostic: no client exists and no
\* request is ever issued.
C8_MissingCredentialExits ==
    env \in {"undefined", ""} =>
        /\ client = <<>>
        /\ \A c \in Calls : calls[c].pc = "idle" /\ calls[c].requests = 0
        /\ ret = <<>>
        /\ marks = <<>>
        /\ proc \in {"start", "exited"}
        /\ proc = "exited" =>
               /\ exitCode = 1
               /\ Len(console) = 1
               /\ console[1].stream = "error"

C8_Witness ==
    /\ env = ""
    /\ proc = "exited"
    /\ exitCode = 1
    /\ client = <<>>

C10_SpanBeginsAtOwnStart ==
    \A r \in {ret[i] : i \in DOMAIN ret} :
        \A i \in DOMAIN r.measure : r.measure[i].start = r.started

====
